---------------------------- MODULE Spec2Model ----------------------------
(***************************************************************************)
(* Model of the gesture-driven particle tree (App component).              *)
(*                                                                         *)
(* Units.  Lengths of the 3D scene are integers in units of 0.01, so       *)
(* SCATTER_RADIUS 70 is 7000 and a velocity of magnitude 0.08 is 8.        *)
(* Landmark coordinates are integers in hundredths of the normalized       *)
(* frame (0..100).  Rotation speeds and the yaw accumulator are integers   *)
(* in units of 0.0001 rad, so 0.005 is 50 and 0.002 is 20.                 *)
(*                                                                         *)
(* The React state appMode is always written together with modeRef and     *)
(* is represented by modeRef.  An optional value (countdown: number|null)  *)
(* is a sequence of length at most one.                                    *)
(***************************************************************************)
EXTENDS Integers, Sequences, FiniteSets, TLC

VARIABLES
    setupPc,               \* position of the async setupVision
    loadingText,           \* React state loadingText
    modeRef,               \* modeRef.current (and appMode)
    gestureRef,            \* gestureRef.current
    rotationSpeedRef,      \* rotationSpeedRef.current
    rotationOffsetRef,     \* rotationOffsetRef.current (= mainGroup.rotation.y)
    isCountingDownRef,     \* isCountingDownRef.current
    photoModeDebounceRef,  \* photoModeDebounceRef.current
    countdown,             \* React state countdown: <<>> is null, <<n>> is n
    showCamera,            \* React state showCamera
    flash,                 \* React state flash
    flashTimeouts,         \* pending setTimeout(() => setFlash(false), 150)
    timers,                \* active setInterval timers, each its closure's count
    debugInfo,             \* React state debugInfo
    lastVideoTime,         \* closure variable lastVideoTime
    currentTime,           \* v.currentTime
    videoReady,            \* v.readyState >= 2
    videoEl,               \* videoRef.current is not null
    particles,             \* particlesRef.current
    ticks,                 \* number of animate() calls so far
    lastResult,            \* history: the detection result of the last processed frame
    consecL,               \* history: length of the run of L_SHAPE_PHOTO frames ending now
                           \* (counted up to DebounceThreshold + 2)
    captureCalls,          \* history: number of capturePhoto() invocations
    captured,              \* history: number of capturePhoto() calls that passed its guards
    shown                  \* history: values given to setCountdown since the last start

vars == << setupPc, loadingText, modeRef, gestureRef, rotationSpeedRef,
           rotationOffsetRef, isCountingDownRef, photoModeDebounceRef,
           countdown, showCamera, flash, flashTimeouts, timers, debugInfo,
           lastVideoTime, currentTime, videoReady, videoEl, particles, ticks,
           lastResult, consecL, captureCalls, captured, shown >>

\* The variables written by a processed frame or by the countdown timer.
interactionVars == << modeRef, gestureRef, rotationSpeedRef, isCountingDownRef,
                      photoModeDebounceRef, countdown, showCamera, timers,
                      debugInfo >>
photoHist == << captureCalls, captured, shown >>
frameHist == << lastResult, consecL >>

-----------------------------------------------------------------------------
(* Bounds of the model *)

\* v.currentTime takes the values 0..MaxVideoTime.
MaxVideoTime == 12
\* animate() runs at most MaxTicks times.
MaxTicks == 2
\* With two photos in the registry, the video presents at most
\* MaxGalleryFrames further frames and animate() runs until it has run
\* MaxGalleryTicks times.
MaxGalleryFrames == 2
MaxGalleryTicks == 4

-----------------------------------------------------------------------------
(* Program constants *)

SCATTER_RADIUS == 7000
TREE_HEIGHT == 5500
TREE_BASE_RADIUS == 2200
\* LERP_SPEED 0.025 in thousandths
LERP_SPEED == 25
\* rotationSpeedRef initial value, and the value the FIST, L-shape and no-hand
\* branches write: 0.005
DefaultSpeed == 50
\* the PINCH_ZOOM branch's 0.002
PinchSpeed == 20
\* photoModeDebounceRef.current > 10
DebounceThreshold == 10
\* let count = 3
CountdownStart == 3
\* originalScale: 1.5, in tenths
PhotoOriginalScale == 15
\* multiplyScalar(0.08)
VelocityMagnitude == 8

Gestures == {"NONE", "FIST", "OPEN_ROTATE", "PINCH_ZOOM", "L_SHAPE_PHOTO"}
AppModes == {"LOADING", "SCATTER", "TREE"}

-----------------------------------------------------------------------------
(* Vectors *)

Vec(x, y, z) == << x, y, z >>
VAdd(a, b) == << a[1] + b[1], a[2] + b[2], a[3] + b[3] >>
VSub(a, b) == << a[1] - b[1], a[2] - b[2], a[3] - b[3] >>
VNegate(a) == << 0 - a[1], 0 - a[2], 0 - a[3] >>
VLengthSq(a) == a[1] * a[1] + a[2] * a[2] + a[3] * a[3]

\* Division rounding toward zero.
TDiv(a, b) == IF a >= 0 THEN a \div b ELSE 0 - ((0 - a) \div b)

\* A lerp that adds the whole offset and the fraction: this += (target -
\* this) * (1 + alpha).
VLerpOvershoot(p, t, alpha) ==
    << p[1] + TDiv((t[1] - p[1]) * (1000 + alpha), 1000),
       p[2] + TDiv((t[2] - p[2]) * (1000 + alpha), 1000),
       p[3] + TDiv((t[3] - p[3]) * (1000 + alpha), 1000) >>

\* Vector3.lerp(target, alpha): this += (target - this) * alpha, alpha in
\* thousandths, rounded toward zero to the model's 0.01 resolution.
VLerp(p, t, alpha) ==
    << p[1] + TDiv((t[1] - p[1]) * alpha, 1000),
       p[2] + TDiv((t[2] - p[2]) * alpha, 1000),
       p[3] + TDiv((t[3] - p[3]) * alpha, 1000) >>

-----------------------------------------------------------------------------
(* Landmarks and the gesture classifier *)

Pt(x, y) == [x |-> x, y |-> y]

\* The keypoints detectGesture and visionLoop read: 0 wrist, 4 thumb tip,
\* 8 index tip, 12 middle tip, 16 ring tip, 20 pinky tip.
KeyPoints == {0, 4, 8, 12, 16, 20}

\* Largest r in lo..hi with r * r <= n (lo * lo <= n < (hi + 1) * (hi + 1)).
RECURSIVE ISqrtIn(_, _, _)
ISqrtIn(n, lo, hi) ==
    IF lo >= hi THEN lo
    ELSE LET mid == (lo + hi + 1) \div 2
         IN  IF mid * mid <= n THEN ISqrtIn(n, mid, hi) ELSE ISqrtIn(n, lo, mid - 1)

ISqrt(n) == ISqrtIn(n, 0, 15000)

\* d(a, b) = Math.hypot(a.x - b.x, a.y - b.y), in units of 0.0001 (rounded
\* down); exact whenever the distance is a whole number of hundredths.
Hypot(a, b) ==
    ISqrt(((a.x - b.x) * (a.x - b.x) + (a.y - b.y) * (a.y - b.y)) * 10000)

\* The classifier testing the L-shape before the pinch.
detectGestureLShapeFirst(lm) ==
    LET wrist    == lm[0]
        thumbTip == lm[4]
        indexTip == lm[8]
        midTip   == lm[12]
        ringTip  == lm[16]
        pinkyTip == lm[20]
        indexDist == Hypot(indexTip, wrist)
        midDist   == Hypot(midTip, wrist)
        ringDist  == Hypot(ringTip, wrist)
        pinkyDist == Hypot(pinkyTip, wrist)
        totalTipDist == indexDist + midDist + ringDist + pinkyDist
    IN  IF /\ indexDist > 3000 /\ midDist < 2500
           /\ ringDist < 2500 /\ pinkyDist < 2500
           /\ Hypot(thumbTip, wrist) > 2000 THEN "L_SHAPE_PHOTO"
        ELSE IF Hypot(thumbTip, indexTip) < 500 THEN "PINCH_ZOOM"
        ELSE IF totalTipDist < 4 * 2500 THEN "FIST"
        ELSE IF totalTipDist > 4 * 3500 THEN "OPEN_ROTATE"
        ELSE "NONE"

\* The classifier with the fist and open thresholds included: avgDist <= 0.25
\* and avgDist >= 0.35.
detectGestureClosedBounds(lm) ==
    LET wrist    == lm[0]
        thumbTip == lm[4]
        indexTip == lm[8]
        midTip   == lm[12]
        ringTip  == lm[16]
        pinkyTip == lm[20]
        indexDist == Hypot(indexTip, wrist)
        midDist   == Hypot(midTip, wrist)
        ringDist  == Hypot(ringTip, wrist)
        pinkyDist == Hypot(pinkyTip, wrist)
        totalTipDist == indexDist + midDist + ringDist + pinkyDist
    IN  IF Hypot(thumbTip, indexTip) < 500 THEN "PINCH_ZOOM"
        ELSE IF /\ indexDist > 3000 /\ midDist < 2500
                /\ ringDist < 2500 /\ pinkyDist < 2500
                /\ Hypot(thumbTip, wrist) > 2000 THEN "L_SHAPE_PHOTO"
        ELSE IF totalTipDist <= 4 * 2500 THEN "FIST"
        ELSE IF totalTipDist >= 4 * 3500 THEN "OPEN_ROTATE"
        ELSE "NONE"

detectGesture(lm) ==
    LET wrist    == lm[0]
        thumbTip == lm[4]
        indexTip == lm[8]
        midTip   == lm[12]
        ringTip  == lm[16]
        pinkyTip == lm[20]
        indexDist == Hypot(indexTip, wrist)
        midDist   == Hypot(midTip, wrist)
        ringDist  == Hypot(ringTip, wrist)
        pinkyDist == Hypot(pinkyTip, wrist)
        totalTipDist == indexDist + midDist + ringDist + pinkyDist
    IN  IF Hypot(thumbTip, indexTip) < 500 THEN "PINCH_ZOOM"
        ELSE IF /\ indexDist > 3000 /\ midDist < 2500
                /\ ringDist < 2500 /\ pinkyDist < 2500
                /\ Hypot(thumbTip, wrist) > 2000 THEN "L_SHAPE_PHOTO"
        \* avgDist = totalTipDist / 4 compared with 0.25 and 0.35
        ELSE IF totalTipDist < 4 * 2500 THEN "FIST"
        ELSE IF totalTipDist > 4 * 3500 THEN "OPEN_ROTATE"
        ELSE "NONE"

\* A hand with its wrist at (wx, 50) and its tips at the given vertical
\* offsets from the wrist (negative is up the frame).
MkHand(wx, thumb, index, mid, ring, pinky) ==
    [k \in KeyPoints |->
        CASE k = 0  -> Pt(wx, 50)
          [] k = 4  -> Pt(wx, 50 + thumb)
          [] k = 8  -> Pt(wx, 50 + index)
          [] k = 12 -> Pt(wx, 50 + mid)
          [] k = 16 -> Pt(wx, 50 + ring)
          [] k = 20 -> Pt(wx, 50 + pinky)]

\* The landmark sets a frame may carry: an open hand at the left edge, the
\* centre and the right edge, a pinch, an L-shape, a fist and a dead-zone hand.
Hands ==
    { MkHand(0, 30, 0 - 40, 0 - 40, 0 - 40, 0 - 40),
      MkHand(50, 30, 0 - 40, 0 - 40, 0 - 40, 0 - 40),
      MkHand(100, 30, 0 - 40, 0 - 40, 0 - 40, 0 - 40),
      MkHand(50, 0 - 20, 0 - 23, 0 - 10, 0 - 10, 0 - 10),
      MkHand(50, 25, 0 - 40, 0 - 10, 0 - 10, 0 - 10),
      MkHand(50, 10, 0 - 10, 0 - 10, 0 - 10, 0 - 10),
      MkHand(50, 20, 0 - 30, 0 - 30, 0 - 30, 0 - 30) }

\* results.landmarks of handLandmarker.detectForVideo: no hand, or one hand.
NoHand == << >>
Results == {NoHand} \cup { << h >> : h \in Hands }

\* Landmark sets around every threshold of the classifier: tip offsets just
\* below, at and just above 0.05 from the thumb, 0.2, 0.25, 0.3 and 0.35 from
\* the wrist.
ThumbOffsets == { 0 - 31, 0 - 30, 0 - 27, 20, 21 }
IndexOffsets == { 0 - 10, 0 - 25, 0 - 30, 0 - 31, 0 - 35, 0 - 40 }
FingerOffsets == { 0 - 10, 0 - 24, 0 - 25, 0 - 35, 0 - 40 }
ClassifierHands ==
    { MkHand(50, t, i, m, r, p) :
        t \in ThumbOffsets, i \in IndexOffsets,
        m \in FingerOffsets, r \in FingerOffsets, p \in FingerOffsets }
ClassifierResults == { << h >> : h \in ClassifierHands }

-----------------------------------------------------------------------------
(* Particles *)

\* camera.position.set(0, 5, 70)
CameraPos == Vec(0, 500, 7000)
\* target.set(0, 5, 55)
FocusPos == Vec(0, 500, 5500)

\* cos and sin of a yaw given in units of 0.0001 rad, times 10000 (Taylor
\* polynomials; the yaw stays well below 0.1 rad within the model's bounds).
CosE4(a) == 10000 - TDiv(a * a, 20000)
SinE4(a) == a - TDiv(a * a * a, 600000000)

\* Object3D.getWorldPosition of a child of mainGroup, whose only transform is
\* rotation.y = yaw.
WorldPos(pos, yaw) ==
    Vec(TDiv(pos[1] * CosE4(yaw) + pos[3] * SinE4(yaw), 10000),
        pos[2],
        TDiv(pos[3] * CosE4(yaw) - pos[1] * SinE4(yaw), 10000))

\* worldPos.distanceTo(camera.position), squared
CameraDistSq(p, yaw) == VLengthSq(VSub(WorldPos(p.position, yaw), CameraPos))

\* The forEach of animate that selects nearestPhoto: the index of the first
\* PHOTO particle at minimal camera distance, 0 for null.  minDist -1 stands
\* for Infinity.
RECURSIVE NearestPhotoFrom(_, _, _, _, _)
NearestPhotoFrom(ps, yaw, i, nearest, minDist) ==
    IF i > Len(ps) THEN nearest
    ELSE IF /\ ps[i].type = "PHOTO"
            /\ (minDist = 0 - 1 \/ CameraDistSq(ps[i], yaw) < minDist)
         THEN NearestPhotoFrom(ps, yaw, i + 1, i, CameraDistSq(ps[i], yaw))
         ELSE NearestPhotoFrom(ps, yaw, i + 1, nearest, minDist)

\* A selection that takes the first PHOTO particle of the registry.
nearestPhotoFirst(ps, currentGesture, yaw) ==
    LET photos == { i \in 1..Len(ps) : ps[i].type = "PHOTO" }
    IN  IF currentGesture = "PINCH_ZOOM" /\ photos # {}
        THEN CHOOSE i \in photos : \A j \in photos : i <= j
        ELSE 0

nearestPhoto(ps, currentGesture, yaw) ==
    IF currentGesture = "PINCH_ZOOM" THEN NearestPhotoFrom(ps, yaw, 1, 0, 0 - 1) ELSE 0

\* Which of the three branches of the per-particle step handles a particle.
Branch(p, isNearest, currentMode, currentGesture) ==
    IF currentGesture = "PINCH_ZOOM" /\ isNearest /\ p.type = "PHOTO" THEN "FOCUS"
    ELSE IF currentMode = "TREE" /\ currentGesture # "PINCH_ZOOM" THEN "TREE"
    ELSE "SCATTER"

\* A scatter step without the boundary test.
ReflectNever(scatterPos, velocity) == velocity

\* A boundary test one velocity step beyond the scatter radius.
ReflectBeyondStep(scatterPos, velocity) ==
    IF VLengthSq(scatterPos) > (SCATTER_RADIUS + VelocityMagnitude) * (SCATTER_RADIUS + VelocityMagnitude)
    THEN VNegate(velocity) ELSE velocity

\* p.velocity after p.scatterPos.add(p.velocity), given the new scatterPos.
Reflect(scatterPos, velocity) ==
    IF VLengthSq(scatterPos) > SCATTER_RADIUS * SCATTER_RADIUS
    THEN VNegate(velocity) ELSE velocity

\* A step whose scatter branch takes scatterPos as target before advancing it.
StepParticleStaleTarget(p, isNearest, currentMode, currentGesture) ==
    LET b == Branch(p, isNearest, currentMode, currentGesture)
        sp == VAdd(p.scatterPos, p.velocity)
    IN  CASE b = "FOCUS" ->
               [p EXCEPT !.position = VLerp(p.position, FocusPos, LERP_SPEED),
                         !.branch = b]
          [] b = "TREE" ->
               [p EXCEPT !.position = VLerp(p.position, p.treePos, LERP_SPEED),
                         !.branch = b]
          [] b = "SCATTER" ->
               [p EXCEPT !.scatterPos = sp,
                         !.velocity = Reflect(sp, p.velocity),
                         !.position = VLerp(p.position, p.scatterPos, LERP_SPEED),
                         !.branch = b]

\* A step that advances scatterPos in every branch.
StepParticleAlwaysDrifts(p, isNearest, currentMode, currentGesture) ==
    LET b == Branch(p, isNearest, currentMode, currentGesture)
        sp == VAdd(p.scatterPos, p.velocity)
    IN  CASE b = "FOCUS" ->
               [p EXCEPT !.scatterPos = sp,
                         !.velocity = Reflect(sp, p.velocity),
                         !.position = VLerp(p.position, FocusPos, LERP_SPEED),
                         !.branch = b]
          [] b = "TREE" ->
               [p EXCEPT !.scatterPos = sp,
                         !.velocity = Reflect(sp, p.velocity),
                         !.position = VLerp(p.position, p.treePos, LERP_SPEED),
                         !.branch = b]
          [] b = "SCATTER" ->
               [p EXCEPT !.scatterPos = sp,
                         !.velocity = Reflect(sp, p.velocity),
                         !.position = VLerp(p.position, sp, LERP_SPEED),
                         !.branch = b]

\* One particle's step of animate.  The field branch records which branch
\* handled the particle in the last tick.
StepParticle(p, isNearest, currentMode, currentGesture) ==
    LET b == Branch(p, isNearest, currentMode, currentGesture)
        sp == VAdd(p.scatterPos, p.velocity)
    IN  CASE b = "FOCUS" ->
               [p EXCEPT !.position = VLerp(p.position, FocusPos, LERP_SPEED),
                         !.branch = b]
          [] b = "TREE" ->
               [p EXCEPT !.position = VLerp(p.position, p.treePos, LERP_SPEED),
                         !.branch = b]
          [] b = "SCATTER" ->
               [p EXCEPT !.scatterPos = sp,
                         !.velocity = Reflect(sp, p.velocity),
                         !.position = VLerp(p.position, sp, LERP_SPEED),
                         !.branch = b]

\* particlesRef.current after one animate(), yaw being the new rotationOffset.
AnimateParticles(ps, currentMode, currentGesture, yaw) ==
    LET n == nearestPhoto(ps, currentGesture, yaw)
    IN  [i \in 1..Len(ps) |-> StepParticle(ps[i], i = n, currentMode, currentGesture)]

\* The number of particles created at startup (PARTICLE_COUNT in the program).
NumInitial == 2

InitTypes == << "LIGHT", "ORNAMENT", "SNOWFLAKE", "BRANCH", "BELL",
                "STAR_ORNAMENT", "GIFT", "CANDY_CANE" >>

\* The i-th particle of the startup loop; the field mesh stands for the
\* identity of the particle's Object3D.  Odd particles start just inside
\* the scatter boundary moving outward along x, even ones at the centre
\* moving up; mesh.position.copy(scatterPos).
InitParticle(i) ==
    LET sp == IF i % 2 = 1 THEN Vec(SCATTER_RADIUS - 4, 0, 0) ELSE Vec(0, 0, 0)
    IN  [ mesh |-> i,
          type |-> InitTypes[((i - 1) % Len(InitTypes)) + 1],
          treePos |-> IF i % 2 = 1 THEN Vec(1000, 0 - 2750, 0) ELSE Vec(0, 0, 500),
          scatterPos |-> sp,
          velocity |-> IF i % 2 = 1 THEN Vec(VelocityMagnitude, 0, 0)
                       ELSE Vec(0, VelocityMagnitude, 0),
          position |-> sp,
          originalScale |-> << >>,
          branch |-> "NONE" ]

CreatedParticles == [i \in 1..NumInitial |-> InitParticle(i)]

\* The particle capturePhoto pushes: a new group (handle mesh) at the origin
\* of mainGroup, scatterPos on the scatter sphere, velocity of magnitude 0.08.
PhotoParticle(mesh, tp, sp, vel) ==
    [ mesh |-> mesh,
      type |-> "PHOTO",
      treePos |-> tp,
      scatterPos |-> sp,
      velocity |-> vel,
      position |-> Vec(0, 0, 0),
      originalScale |-> << PhotoOriginalScale >>,
      branch |-> "NONE" ]

\* getTreePos().normalize().multiplyScalar(TREE_BASE_RADIUS * 0.8) with y
\* replaced by (Math.random() - 0.5) * TREE_HEIGHT * 0.8
PhotoTreePosChoices == { Vec(1760, 1100, 0) }
\* randomDirection().multiplyScalar(SCATTER_RADIUS)
PhotoScatterChoices == { Vec(SCATTER_RADIUS, 0, 0), Vec(0, 0, SCATTER_RADIUS) }
\* randomDirection().multiplyScalar(0.08)
PhotoVelocityChoices == { Vec(VelocityMagnitude, 0, 0), Vec(0, 0 - VelocityMagnitude, 0) }

\* A capturePhoto that keeps the registry at its size by dropping the oldest
\* particle.
capturePhotoEvicting(ps, videoElement, ctx, newParticle) ==
    IF ~videoElement THEN ps
    ELSE IF ~ctx THEN ps
    ELSE Append(Tail(ps), newParticle)

\* particlesRef.current after capturePhoto(): nothing happens without the
\* video element or without a 2d context.
capturePhoto(ps, videoElement, ctx, newParticle) ==
    IF ~videoElement THEN ps
    ELSE IF ~ctx THEN ps
    ELSE Append(ps, newParticle)

-----------------------------------------------------------------------------
(* The interaction state machine: one processed frame of visionLoop *)

\* results.landmarks && results.landmarks.length > 0
HandDetected(res) == res # NoHand

\* detectGesture on each landmark set a frame may carry.
DetectedGesture == [h \in Hands |-> detectGesture(h)]

\* gestureRef.current after the frame.
FrameGesture(res) ==
    IF ~HandDetected(res) THEN "NONE"
    ELSE IF res[1] \in Hands THEN DetectedGesture[res[1]]
    ELSE detectGesture(res[1])

\* const palmX = lm[0].x
PalmX(res) == res[1][0].x

\* setDebugInfo of the frame.
FrameDebugInfo(res, old) ==
    IF ~HandDetected(res) THEN "NO HAND DETECTED"
    ELSE CASE FrameGesture(res) = "L_SHAPE_PHOTO" -> "L-SHAPE: PREPARING PHOTO"
           [] FrameGesture(res) = "OPEN_ROTATE" -> "OPEN HAND: SCATTER & ROTATE"
           [] FrameGesture(res) = "PINCH_ZOOM" -> "PINCH: INSPECTING MEMORIES"
           [] FrameGesture(res) = "FIST" -> "FIST: HOLDING TREE"
           [] OTHER -> old

\* The mode transitions with the FIST branch writing nothing.
FrameModeNoGather(mode, res) ==
    IF ~HandDetected(res) THEN mode
    ELSE CASE FrameGesture(res) = "OPEN_ROTATE" -> "SCATTER"
           [] FrameGesture(res) = "PINCH_ZOOM" -> "SCATTER"
           [] OTHER -> mode

\* The mode transitions placed inside the test of isCountingDownRef: no
\* mode change while a countdown runs.
FrameModeIdleOnly(mode, res) ==
    IF ~HandDetected(res) \/ isCountingDownRef THEN mode
    ELSE CASE FrameGesture(res) = "OPEN_ROTATE" -> "SCATTER"
           [] FrameGesture(res) = "PINCH_ZOOM" -> "SCATTER"
           [] FrameGesture(res) = "FIST" -> "TREE"
           [] OTHER -> mode

\* modeRef.current after the frame: the OPEN_ROTATE, PINCH_ZOOM and FIST
\* branches.
FrameMode(mode, res) ==
    IF ~HandDetected(res) THEN mode
    ELSE CASE FrameGesture(res) = "OPEN_ROTATE" -> "SCATTER"
           [] FrameGesture(res) = "PINCH_ZOOM" -> "SCATTER"
           [] FrameGesture(res) = "FIST" -> "TREE"
           [] OTHER -> mode

\* The speeds with the OPEN_ROTATE mapping mirrored: (0.5 - palmX) * 0.02.
FrameSpeedMirrored(speed, res) ==
    IF ~HandDetected(res) THEN DefaultSpeed
    ELSE CASE FrameGesture(res) = "L_SHAPE_PHOTO" -> DefaultSpeed
           [] FrameGesture(res) = "OPEN_ROTATE" -> (50 - PalmX(res)) * 2
           [] FrameGesture(res) = "PINCH_ZOOM" -> PinchSpeed
           [] FrameGesture(res) = "FIST" -> DefaultSpeed
           [] OTHER -> speed

\* The speeds with the PINCH_ZOOM branch writing none.
FrameSpeedPinchKeeps(speed, res) ==
    IF ~HandDetected(res) THEN DefaultSpeed
    ELSE CASE FrameGesture(res) = "L_SHAPE_PHOTO" -> DefaultSpeed
           [] FrameGesture(res) = "OPEN_ROTATE" -> (PalmX(res) - 50) * 2
           [] FrameGesture(res) = "FIST" -> DefaultSpeed
           [] OTHER -> speed

\* rotationSpeedRef.current after the frame.
FrameSpeed(speed, res) ==
    IF ~HandDetected(res) THEN DefaultSpeed
    ELSE CASE FrameGesture(res) = "L_SHAPE_PHOTO" -> DefaultSpeed
           [] FrameGesture(res) = "OPEN_ROTATE" -> (PalmX(res) - 50) * 2
           [] FrameGesture(res) = "PINCH_ZOOM" -> PinchSpeed
           [] FrameGesture(res) = "FIST" -> DefaultSpeed
           [] OTHER -> speed

\* Increments without the isCountingDownRef guard.
IncrementsReentrant(counting, res) ==
    HandDetected(res) /\ FrameGesture(res) = "L_SHAPE_PHOTO"

\* Whether the frame executes photoModeDebounceRef.current++.
Increments(counting, res) ==
    HandDetected(res) /\ FrameGesture(res) = "L_SHAPE_PHOTO" /\ ~counting

\* photoModeDebounceRef.current after the increment or the else branch's
\* reset (before a timer could reset it).
FrameDebounce(debounce, counting, res) ==
    IF Increments(counting, res) THEN debounce + 1
    ELSE IF HandDetected(res) /\ FrameGesture(res) # "L_SHAPE_PHOTO" THEN 0
    ELSE debounce

\* The start test written as photoModeDebounceRef.current >= 10.
StartsCountdownAtThreshold(debounce, counting, res) ==
    Increments(counting, res) /\ FrameDebounce(debounce, counting, res) >= DebounceThreshold

\* Whether the frame starts a countdown.
StartsCountdown(debounce, counting, res) ==
    Increments(counting, res) /\ FrameDebounce(debounce, counting, res) > DebounceThreshold

\* The body of visionLoop behind its gate, for detection result res, with
\* mode the value of modeRef.current on entry.
ProcessFrame(mode, res) ==
    LET start == StartsCountdown(photoModeDebounceRef, isCountingDownRef, res)
    IN  /\ lastVideoTime' = currentTime
        /\ gestureRef' = FrameGesture(res)
        /\ debugInfo' = FrameDebugInfo(res, debugInfo)
        /\ modeRef' = FrameMode(mode, res)
        /\ rotationSpeedRef' = FrameSpeed(rotationSpeedRef, res)
        /\ photoModeDebounceRef' = FrameDebounce(photoModeDebounceRef, isCountingDownRef, res)
        /\ isCountingDownRef' = (isCountingDownRef \/ start)
        /\ countdown' = IF start THEN << CountdownStart >> ELSE countdown
        /\ showCamera' = (showCamera \/ start)
        /\ timers' = IF start THEN Append(timers, CountdownStart) ELSE timers
        /\ lastResult' = << res >>
        /\ consecL' = IF HandDetected(res) /\ FrameGesture(res) = "L_SHAPE_PHOTO"
                      THEN (IF consecL > DebounceThreshold + 1 THEN consecL ELSE consecL + 1)
                      ELSE 0
        /\ shown' = IF start THEN << CountdownStart >> ELSE shown
        /\ UNCHANGED << rotationOffsetRef, flash, flashTimeouts, currentTime,
                        videoEl, particles, ticks, captureCalls, captured >>

\* The gate without the comparison of timestamps.
FrameGateNoTimestamp == videoReady

\* if (handLandmarker && v && v.readyState >= 2 && v.currentTime !== lastVideoTime)
FrameGate == videoReady /\ currentTime # lastVideoTime

-----------------------------------------------------------------------------
(* setupVision *)

\* await FilesetResolver.forVisionTasks resolves.
SetupResolver ==
    /\ setupPc = "resolver"
    /\ setupPc' = "landmarker"
    /\ UNCHANGED << loadingText, interactionVars, rotationOffsetRef, flash,
                    flashTimeouts, lastVideoTime, currentTime, videoReady, videoEl,
                    particles, ticks, frameHist, photoHist >>

\* await HandLandmarker.createFromOptions resolves.
SetupLandmarker ==
    /\ setupPc = "landmarker"
    /\ setupPc' = "camera"
    /\ UNCHANGED << loadingText, interactionVars, rotationOffsetRef, flash,
                    flashTimeouts, lastVideoTime, currentTime, videoReady, videoEl,
                    particles, ticks, frameHist, photoHist >>

\* const v = videoRef.current; if (!v) throw ...; getUserMedia resolves and
\* the stream is attached.
SetupCamera ==
    /\ setupPc = "camera"
    /\ IF videoEl
       THEN setupPc' = "loadeddata" /\ UNCHANGED loadingText
       ELSE setupPc' = "failed" /\ loadingText' = "MOUSE ONLY"
    /\ UNCHANGED << interactionVars, rotationOffsetRef, flash,
                    flashTimeouts, lastVideoTime, currentTime, videoReady, videoEl,
                    particles, ticks, frameHist, photoHist >>

\* One of the awaited promises rejects (the wasm files or the model do not
\* load, the camera is refused): the catch block.
SetupFail ==
    /\ setupPc \in {"resolver", "landmarker", "camera"}
    /\ setupPc' = "failed"
    /\ loadingText' = "MOUSE ONLY"
    /\ UNCHANGED << interactionVars, rotationOffsetRef, flash,
                    flashTimeouts, lastVideoTime, currentTime, videoReady, videoEl,
                    particles, ticks, frameHist, photoHist >>

\* onloadeddata fires (the video has its first frame): READY, mode TREE, and
\* the first, synchronous call of visionLoop, whose gate is open.
\* An onloadeddata continuation that starts visionLoop without writing the
\* mode.
SetupLoadedDataOnKeepsMode(results) ==
    /\ setupPc = "loadeddata"
    /\ setupPc' = "running"
    /\ loadingText' = "READY"
    /\ videoReady' = TRUE
    /\ \E res \in results : ProcessFrame(modeRef, res)

SetupLoadedDataOn(results) ==
    /\ setupPc = "loadeddata"
    /\ setupPc' = "running"
    /\ loadingText' = "READY"
    /\ videoReady' = TRUE
    /\ \E res \in results : ProcessFrame("TREE", res)

SetupLoadedData == SetupLoadedDataOn(Results)

-----------------------------------------------------------------------------
(* visionLoop, rescheduled by requestAnimationFrame *)

\* An iteration whose gate is open, detectForVideo returning one of results.
VisionLoopFrameOn(results) ==
    /\ setupPc = "running"
    /\ FrameGate
    /\ \E res \in results : ProcessFrame(modeRef, res)
    /\ UNCHANGED << setupPc, loadingText, videoReady >>

VisionLoopFrame == VisionLoopFrameOn(Results)

\* The gate is closed: the iteration only reschedules itself.
VisionLoopStale ==
    /\ setupPc = "running"
    /\ ~FrameGate
    /\ UNCHANGED vars

-----------------------------------------------------------------------------
(* The countdown timer: one firing of the setInterval callback of timer i *)

\* The callback's test written as count > 1.
TimerDoneEarly(count) == ~(count > 1)

\* The callback's test written as count >= 0.
TimerDoneLate(count) == ~(count >= 0)

\* The callback's else branch (count-- has brought count to zero).
TimerDone(count) == ~(count > 0)

RemoveAt(seq, i) == SubSeq(seq, 1, i - 1) \o SubSeq(seq, i + 1, Len(seq))

\* contexts: the outcomes canvas.getContext('2d') may have (TRUE: a context).
TimerFireWith(i, contexts) ==
    LET count == timers[i] - 1
    IN  IF ~TimerDone(count)
        THEN /\ timers' = [timers EXCEPT ![i] = count]
             /\ countdown' = << count >>
             /\ shown' = Append(shown, count)
             /\ UNCHANGED << setupPc, loadingText, modeRef, gestureRef,
                             rotationSpeedRef, rotationOffsetRef, isCountingDownRef,
                             photoModeDebounceRef, showCamera, flash, flashTimeouts,
                             debugInfo, lastVideoTime, currentTime, videoReady,
                             videoEl, particles, ticks, frameHist, captureCalls,
                             captured >>
        ELSE /\ timers' = RemoveAt(timers, i)
             /\ countdown' = << >>
             /\ flash' = TRUE
             /\ \E ctx \in contexts, tp \in PhotoTreePosChoices,
                   sp \in PhotoScatterChoices, vel \in PhotoVelocityChoices :
                    /\ particles' = capturePhoto(particles, videoEl, ctx,
                                        PhotoParticle(Len(particles) + 1, tp, sp, vel))
                    /\ captured' = captured + (IF videoEl /\ ctx THEN 1 ELSE 0)
             /\ captureCalls' = captureCalls + 1
             /\ flashTimeouts' = flashTimeouts + 1
             /\ showCamera' = FALSE
             /\ isCountingDownRef' = FALSE
             /\ photoModeDebounceRef' = 0
             /\ UNCHANGED << setupPc, loadingText, modeRef, gestureRef,
                             rotationSpeedRef, rotationOffsetRef, debugInfo,
                             lastVideoTime, currentTime, videoReady, videoEl,
                             ticks, frameHist, shown >>

TimerFire(i) == TimerFireWith(i, BOOLEAN)

Timer == \E i \in 1..Len(timers) : TimerFire(i)

\* setTimeout(() => setFlash(false), 150)
FlashOff ==
    /\ flashTimeouts > 0
    /\ flash' = FALSE
    /\ flashTimeouts' = flashTimeouts - 1
    /\ UNCHANGED << setupPc, loadingText, interactionVars, rotationOffsetRef,
                    lastVideoTime, currentTime, videoReady, videoEl, particles,
                    ticks, frameHist, photoHist >>

-----------------------------------------------------------------------------
(* animate, rescheduled by requestAnimationFrame *)

\* An animate that sets the yaw to the current speed.
AnimateUpToNoAccumulate(maxTicks) ==
    /\ ticks < maxTicks
    /\ ticks' = ticks + 1
    /\ rotationOffsetRef' = rotationSpeedRef
    /\ particles' = AnimateParticles(particles, modeRef, gestureRef, rotationOffsetRef')
    /\ UNCHANGED << setupPc, loadingText, interactionVars, flash, flashTimeouts,
                    lastVideoTime, currentTime, videoReady, videoEl, frameHist,
                    photoHist >>

\* An animate that turns the assembly against the speed.
AnimateUpToBackward(maxTicks) ==
    /\ ticks < maxTicks
    /\ ticks' = ticks + 1
    /\ rotationOffsetRef' = rotationOffsetRef - rotationSpeedRef
    /\ particles' = AnimateParticles(particles, modeRef, gestureRef, rotationOffsetRef')
    /\ UNCHANGED << setupPc, loadingText, interactionVars, flash, flashTimeouts,
                    lastVideoTime, currentTime, videoReady, videoEl, frameHist,
                    photoHist >>

\* One call of animate, the model running at most maxTicks of them.
AnimateUpTo(maxTicks) ==
    /\ ticks < maxTicks
    /\ ticks' = ticks + 1
    /\ rotationOffsetRef' = rotationOffsetRef + rotationSpeedRef
    /\ particles' = AnimateParticles(particles, modeRef, gestureRef, rotationOffsetRef')
    /\ UNCHANGED << setupPc, loadingText, interactionVars, flash, flashTimeouts,
                    lastVideoTime, currentTime, videoReady, videoEl, frameHist,
                    photoHist >>

\* An animate that an error of setupVision stops.
AnimateUnlessFailed == setupPc # "failed" /\ AnimateUpTo(MaxTicks)

Animate == AnimateUpTo(MaxTicks)

-----------------------------------------------------------------------------
(* The video element *)

\* The playing video presents its next frame.
VideoFrameUpTo(maxTime) ==
    /\ setupPc = "running"
    /\ videoReady
    /\ currentTime < maxTime
    /\ currentTime' = currentTime + 1
    /\ UNCHANGED << setupPc, loadingText, interactionVars, rotationOffsetRef, flash,
                    flashTimeouts, lastVideoTime, videoReady, videoEl, particles,
                    ticks, frameHist, photoHist >>

VideoFrame == VideoFrameUpTo(MaxVideoTime)

\* The stream stops delivering data (readyState falls below 2), or delivers
\* again.
VideoReadyState ==
    /\ setupPc = "running"
    /\ videoReady' = ~videoReady
    /\ UNCHANGED << setupPc, loadingText, interactionVars, rotationOffsetRef, flash,
                    flashTimeouts, lastVideoTime, currentTime, videoEl, particles,
                    ticks, frameHist, photoHist >>

-----------------------------------------------------------------------------
(* The specification *)

\* The state when the mount effect returns: the particles are created, the
\* first animate() has run (in mode LOADING), and setupVision waits for the
\* FilesetResolver.
Init ==
    /\ setupPc = "resolver"
    /\ loadingText = "LIGHTING CANDLES"
    /\ modeRef = "LOADING"
    /\ gestureRef = "NONE"
    /\ rotationSpeedRef = DefaultSpeed
    /\ rotationOffsetRef = DefaultSpeed
    /\ isCountingDownRef = FALSE
    /\ photoModeDebounceRef = 0
    /\ countdown = << >>
    /\ showCamera = FALSE
    /\ flash = FALSE
    /\ flashTimeouts = 0
    /\ timers = << >>
    /\ debugInfo = ""
    /\ lastVideoTime = 0 - 1
    /\ currentTime = 0
    /\ videoReady = FALSE
    /\ videoEl = TRUE
    /\ particles = AnimateParticles(CreatedParticles, "LOADING", "NONE", DefaultSpeed)
    /\ ticks = 1
    /\ lastResult = << >>
    /\ consecL = 0
    /\ captureCalls = 0
    /\ captured = 0
    /\ shown = << >>

Next ==
    \/ SetupResolver
    \/ SetupLandmarker
    \/ SetupCamera
    \/ SetupFail
    \/ SetupLoadedData
    \/ VisionLoopFrame
    \/ VisionLoopStale
    \/ Timer
    \/ FlashOff
    \/ Animate
    \/ VideoFrame
    \/ VideoReadyState

Spec == Init /\ [][Next]_vars

-----------------------------------------------------------------------------
(* The photo scenario: the hand shows an L-shape for eleven processed frames *)
(* and then leaves the picture; setup succeeds and the canvas gives a 2d     *)
(* context.                                                                  *)

\* The number of L-shape frames of the scenario.
ScenarioFrames == DebounceThreshold + 1

LShapeHand == MkHand(50, 25, 0 - 40, 0 - 10, 0 - 10, 0 - 10)

\* What detectForVideo returns for the next processed frame of the scenario.
ScenarioResults ==
    IF \/ lastResult = << >>
       \/ (HandDetected(lastResult[1]) /\ consecL < ScenarioFrames)
    THEN { << LShapeHand >> }
    ELSE { NoHand }

ScenarioLoadedData == SetupLoadedDataOn(ScenarioResults)
ScenarioFrame == VisionLoopFrameOn(ScenarioResults)
ScenarioTimer == \E i \in 1..Len(timers) : TimerFireWith(i, {TRUE})

ScenarioNext ==
    \/ SetupResolver
    \/ SetupLandmarker
    \/ SetupCamera
    \/ ScenarioLoadedData
    \/ ScenarioFrame
    \/ VisionLoopStale
    \/ ScenarioTimer
    \/ FlashOff
    \/ Animate
    \/ VideoFrame
    \/ VideoReadyState

\* setInterval keeps firing the countdown callback until clearInterval.
ScenarioSpec == Init /\ [][ScenarioNext]_vars /\ WF_vars(ScenarioTimer)

-----------------------------------------------------------------------------
(* The classifier on the first frame: setup succeeds and the first,          *)
(* synchronous iteration of visionLoop classifies a hand of ClassifierHands. *)

ClassifierLoadedData == SetupLoadedDataOn(ClassifierResults)

ClassifierNext ==
    \/ SetupResolver
    \/ SetupLandmarker
    \/ SetupCamera
    \/ ClassifierLoadedData

ClassifierSpec == Init /\ [][ClassifierNext]_vars

-----------------------------------------------------------------------------
(* The gallery: the running program once two photos have been captured.     *)
(* GalleryInit is the state Spec reaches, for a video of sufficient length,  *)
(* after setup, the startup tick, two photo scenarios (L-shape x 11, the     *)
(* countdown, the capture) and one frame without a hand.                     *)

\* v.currentTime of that no-hand frame, the video's frames numbered from 0.
GalleryTime == 2 * ScenarioFrames

\* particlesRef.current after the two captures: capturePhoto draws treePos,
\* scatterPos and velocity at random.
Galleries ==
    { capturePhoto(
          capturePhoto(AnimateParticles(CreatedParticles, "LOADING", "NONE", DefaultSpeed),
                       TRUE, TRUE, PhotoParticle(NumInitial + 1, tp1, sp1, vel1)),
          TRUE, TRUE, PhotoParticle(NumInitial + 2, tp2, sp2, vel2)) :
        << tp1, tp2 >> \in PhotoTreePosChoices \X PhotoTreePosChoices,
        << sp1, sp2 >> \in PhotoScatterChoices \X PhotoScatterChoices,
        << vel1, vel2 >> \in PhotoVelocityChoices \X PhotoVelocityChoices }

GalleryInit ==
    /\ setupPc = "running"
    /\ loadingText = "READY"
    /\ modeRef = "TREE"
    /\ gestureRef = "NONE"
    /\ rotationSpeedRef = DefaultSpeed
    /\ rotationOffsetRef = DefaultSpeed
    /\ isCountingDownRef = FALSE
    /\ photoModeDebounceRef = 0
    /\ countdown = << >>
    /\ showCamera = FALSE
    /\ flash = FALSE
    /\ flashTimeouts = 0
    /\ timers = << >>
    /\ debugInfo = "NO HAND DETECTED"
    /\ lastVideoTime = GalleryTime
    /\ currentTime = GalleryTime
    /\ videoReady = TRUE
    /\ videoEl = TRUE
    /\ particles \in Galleries
    /\ ticks = 1
    /\ lastResult = << NoHand >>
    /\ consecL = 0
    /\ captureCalls = 2
    /\ captured = 2
    /\ shown = << 3, 2, 1 >>

GalleryVideoFrame == VideoFrameUpTo(GalleryTime + MaxGalleryFrames)
GalleryAnimate == AnimateUpTo(MaxGalleryTicks)

\* The actions of Next that are enabled within MaxGalleryFrames frames: no
\* countdown can start, so no timer runs.
GalleryNext ==
    \/ VisionLoopFrame
    \/ VisionLoopStale
    \/ GalleryAnimate
    \/ GalleryVideoFrame
    \/ VideoReadyState

GallerySpec == GalleryInit /\ [][GalleryNext]_vars

-----------------------------------------------------------------------------
(* Properties *)

\* This step processed a video frame (the gate was open).
FrameStep == lastVideoTime' # lastVideoTime

\* The detection result of the frame this step processed.
StepResult == lastResult'[1]

\* modeRef.current on entry to the frame's state machine (setupVision writes
\* TREE just before the first frame).
FrameEntryMode == IF setupPc = "loadeddata" THEN "TREE" ELSE modeRef

\* This step started a countdown, or completed one.
CountdownStarts == ~isCountingDownRef /\ isCountingDownRef'
CountdownCompletes == isCountingDownRef /\ ~isCountingDownRef'

\* C1 (debounce law): a countdown starts only in a frame that ends a run of
\* more than 10 consecutive processed frames classified L_SHAPE_PHOTO, a run
\* that any other processed frame (another gesture, a dead-zone NONE, no hand)
\* breaks.
C1_DebounceLaw ==
    [][CountdownStarts => consecL' > DebounceThreshold]_vars

\* C2 (uninterruptible countdown): while counting down exactly one timer
\* runs and the countdown shows its count, 3 then 2 then 1; no frame and no
\* tick changes that; the step that ends the countdown is the third firing,
\* which calls capturePhoto once, sets flash, clears the countdown and leaves
\* debounceCount 0.
C2_Uninterruptible ==
    [][ /\ isCountingDownRef =>
              /\ Len(timers) = 1
              /\ shown \in { << 3 >>, << 3, 2 >>, << 3, 2, 1 >> }
              /\ countdown = << shown[Len(shown)] >>
              /\ timers[1] = shown[Len(shown)]
        /\ (isCountingDownRef /\ isCountingDownRef') =>
              /\ captureCalls' = captureCalls
              /\ \/ shown' = shown /\ timers' = timers
                 \/ shown' = Append(shown, shown[Len(shown)] - 1)
        /\ CountdownCompletes =>
              /\ shown = << 3, 2, 1 >>
              /\ captureCalls' = captureCalls + 1
              /\ flash'
              /\ countdown' = << >>
              /\ timers' = << >>
              /\ photoModeDebounceRef' = 0
        /\ captureCalls' # captureCalls => CountdownCompletes ]_vars

\* A countdown has completed although a FIST frame arrived after it started.
C2_Witness ==
    /\ captureCalls = 1
    /\ ~isCountingDownRef
    /\ shown = << 3, 2, 1 >>
    /\ flash
    /\ photoModeDebounceRef = 0
    /\ gestureRef = "FIST"
    /\ ticks > 1

\* C3 (no re-entrant capture): at most one countdown timer is ever active,
\* and an L_SHAPE_PHOTO frame processed while counting down leaves
\* debounceCount and the timers as they are.
C3_NoReentrantCapture ==
    [][ /\ Len(timers') <= 1
        /\ (/\ FrameStep /\ isCountingDownRef
            /\ HandDetected(StepResult)
            /\ FrameGesture(StepResult) = "L_SHAPE_PHOTO") =>
              /\ photoModeDebounceRef' = photoModeDebounceRef
              /\ timers' = timers
              /\ countdown' = countdown ]_vars

\* A twelfth consecutive L-shape frame has been processed while counting down.
C3_Witness ==
    /\ isCountingDownRef
    /\ consecL = DebounceThreshold + 2
    /\ gestureRef = "L_SHAPE_PHOTO"
    /\ Len(timers) = 1

\* C4: every processed frame that is not OPEN_ROTATE, PINCH_ZOOM, FIST or
\* L_SHAPE_PHOTO (a hand classified NONE, or no hand) leaves rotationSpeed at
\* the default 0.005 and gesture NONE.
C4_OtherFrameResets ==
    [][ (FrameStep /\ FrameGesture(StepResult) = "NONE") =>
            (rotationSpeedRef' = DefaultSpeed /\ gestureRef' = "NONE") ]_vars

\* C5: a processed frame without a hand sets gesture NONE, leaves mode as it
\* was and, when the photo sub-state is idle, leaves debounceCount 0.
C5_NoHandResets ==
    [][ (FrameStep /\ ~HandDetected(StepResult)) =>
            /\ gestureRef' = "NONE"
            /\ modeRef' = FrameEntryMode
            /\ (~isCountingDownRef' => photoModeDebounceRef' = 0) ]_vars

\* C6 (mode transition of one processed frame): OPEN_ROTATE and PINCH_ZOOM
\* give mode SCATTER, FIST gives TREE, and L_SHAPE_PHOTO, NONE and a frame
\* without a hand leave mode as it was, whether or not a countdown runs.
C6_ModeTransition ==
    [][ FrameStep =>
          LET g == IF HandDetected(StepResult) THEN FrameGesture(StepResult)
                   ELSE "NO_HAND"
          IN  /\ g \in {"OPEN_ROTATE", "PINCH_ZOOM"} => modeRef' = "SCATTER"
              /\ g = "FIST" => modeRef' = "TREE"
              /\ g \in {"L_SHAPE_PHOTO", "NONE", "NO_HAND"} => modeRef' = FrameEntryMode
      ]_vars

\* A PINCH_ZOOM frame has been processed while a countdown runs, and mode is
\* SCATTER.
C6_Witness ==
    /\ isCountingDownRef
    /\ lastResult # << >>
    /\ HandDetected(lastResult[1])
    /\ FrameGesture(lastResult[1]) = "PINCH_ZOOM"
    /\ modeRef = "SCATTER"

\* C7 (rotationSpeed of one processed frame): OPEN_ROTATE gives
\* (palmX - 0.5) * 0.02 for the frame's wrist x (-0.01 at x = 0, 0 at x = 0.5,
\* +0.01 at x = 1), PINCH_ZOOM gives 0.002 and FIST gives 0.005.
C7_RotationSpeed ==
    [][ (FrameStep /\ HandDetected(StepResult)) =>
          LET g == FrameGesture(StepResult)
              palmX == StepResult[1][0].x
          IN  /\ g = "OPEN_ROTATE" =>
                    /\ rotationSpeedRef' = (palmX - 50) * 2
                    /\ palmX = 0 => rotationSpeedRef' = 0 - 100
                    /\ palmX = 50 => rotationSpeedRef' = 0
                    /\ palmX = 100 => rotationSpeedRef' = 100
              /\ g = "PINCH_ZOOM" => rotationSpeedRef' = 20
              /\ g = "FIST" => rotationSpeedRef' = 50
      ]_vars

\* An open hand at the left edge has set the speed to -0.01, in a frame after
\* the first.
C7_Witness ==
    /\ gestureRef = "OPEN_ROTATE"
    /\ rotationSpeedRef = 0 - 100
    /\ lastResult # << >>
    /\ HandDetected(lastResult[1])
    /\ lastResult[1][1][0].x = 0
    /\ lastVideoTime > 0

\* C8 (degraded mode): after setupVision has failed mode is TREE and every
\* animation tick takes each particle's treePos as its target.
C8_FailureLeavesTree ==
    [][ setupPc' = "failed" =>
          /\ modeRef' = "TREE"
          /\ ticks' # ticks =>
                \A i \in 1..Len(particles') : particles'[i].branch = "TREE" ]_vars

\* C9 (capture source unavailable): when a countdown completes while the
\* video is not ready, the registry is unchanged, the photo sub-state is idle
\* and no countdown timer is left running.
C9_CaptureNoOp ==
    [][ (CountdownCompletes /\ (~videoReady \/ ~videoEl)) =>
            /\ particles' = particles
            /\ ~isCountingDownRef'
            /\ timers' = << >>
            /\ countdown' = << >> ]_vars

\* C10 (append-only registry): no step removes, replaces or reorders a
\* particle; the length changes only in the step that completes a countdown,
\* by one appended PHOTO particle of originalScale 1.5; the length is always
\* the initial count plus the number of successful captures.
C10_AppendOnly ==
    [][ /\ Len(particles') >= Len(particles)
        /\ \A i \in 1..Len(particles) :
              /\ particles'[i].mesh = particles[i].mesh
              /\ particles'[i].type = particles[i].type
              /\ particles'[i].treePos = particles[i].treePos
              /\ particles'[i].originalScale = particles[i].originalScale
        /\ Len(particles') # Len(particles) =>
              /\ CountdownCompletes
              /\ Len(particles') = Len(particles) + 1
              /\ particles'[Len(particles')].type = "PHOTO"
              /\ particles'[Len(particles')].originalScale = << 15 >>
              /\ \A i \in 1..Len(particles) :
                    particles'[i].mesh # particles'[Len(particles')].mesh
        /\ Len(particles') = NumInitial + captured' ]_vars

\* A capture has appended a photo particle and a tick has animated it.
C10_Witness ==
    /\ captured = 1
    /\ Len(particles) = NumInitial + 1
    /\ particles[Len(particles)].type = "PHOTO"
    /\ particles[Len(particles)].branch # "NONE"

\* C11 (scenario L_SHAPE_PHOTO x 11, then no hand): the countdown starts, at
\* 3, exactly in the step that processes the 11th frame and in no other step;
\* the countdown then completes through its timer although only no-hand
\* frames follow; the completing step appends one PHOTO particle, and from
\* then on the registry holds exactly one particle more than at startup.
C11_Scenario ==
    /\ [][ /\ CountdownStarts <=> (FrameStep /\ consecL' = ScenarioFrames)
           /\ CountdownStarts =>
                 /\ countdown' = << 3 >>
                 /\ timers' = << 3 >>
                 /\ photoModeDebounceRef' = 11
           /\ (FrameStep /\ consecL' \in 1..(ScenarioFrames - 1)) =>
                 (~isCountingDownRef' /\ countdown' = << >> /\ timers' = << >>)
           /\ CountdownCompletes =>
                 /\ captureCalls' = 1
                 /\ Len(particles') = Len(particles) + 1
                 /\ particles'[Len(particles')].type = "PHOTO"
           /\ Len(particles') = NumInitial + captureCalls'
           /\ captureCalls' <= 1 ]_vars
    /\ (isCountingDownRef ~>
            (/\ ~isCountingDownRef
             /\ captureCalls = 1
             /\ Len(particles) = NumInitial + 1
             /\ particles[NumInitial + 1].type = "PHOTO"))

\* The scenario's countdown has completed after no-hand frames were
\* processed while it ran, and the photo is in the registry.
C11_Witness ==
    /\ captureCalls = 1
    /\ ~isCountingDownRef
    /\ lastResult = << NoHand >>
    /\ shown = << 3, 2, 1 >>
    /\ Len(particles) = NumInitial + 1
    /\ particles[NumInitial + 1].type = "PHOTO"

\* This step is one call of animate.
TickStep == ticks' # ticks

\* The particles the tick of this step treated as pinch-focused, and the
\* PHOTO particles of the registry.
Focused == { i \in 1..Len(particles') : particles'[i].branch = "FOCUS" }
Photos == { i \in 1..Len(particles) : particles[i].type = "PHOTO" }

\* C12 (mutual exclusivity of pinch focus): in every animation tick at most
\* one particle is pinch-focused; one is focused exactly when gesture is
\* PINCH_ZOOM and the registry holds a PHOTO particle; the focused particle
\* is a PHOTO particle whose distance to the camera (world position under
\* the tick's yaw) is minimal among all PHOTO particles.
C12_FocusExclusive ==
    [][ TickStep =>
          /\ Cardinality(Focused) <= 1
          /\ Focused # {} <=> (gestureRef = "PINCH_ZOOM" /\ Photos # {})
          /\ \A i \in Focused :
                /\ particles[i].type = "PHOTO"
                /\ \A j \in Photos :
                      CameraDistSq(particles[i], rotationOffsetRef')
                          <= CameraDistSq(particles[j], rotationOffsetRef') ]_vars

\* A pinch tick has focused the second photo, which was strictly nearer to
\* the camera than the first, and left the first one scattering.
C12_Witness ==
    /\ gestureRef = "PINCH_ZOOM"
    /\ Len(particles) = NumInitial + 2
    /\ particles[NumInitial + 2].branch = "FOCUS"
    /\ particles[NumInitial + 1].branch = "SCATTER"
    /\ particles[NumInitial + 1].type = "PHOTO"

\* The velocity particle i was created with.
CreationVelocities(i) ==
    IF i <= NumInitial THEN { InitParticle(i).velocity } ELSE PhotoVelocityChoices

\* C13 (boundary law): a scatter step adds velocity to scatterPos and leaves
\* the sum in place (no clamp, no reset); when the new scatterPos is farther
\* from the origin than the scatter radius the velocity becomes the exact
\* negation of what it was, otherwise it is unchanged; no other step
\* touches scatterPos or velocity; so every particle's velocity is always
\* its creation velocity or the negation of it, of unchanged magnitude.
C13_BoundaryLaw ==
    [][ \A i \in 1..Len(particles) :
          LET p == particles[i]
              q == particles'[i]
          IN  /\ IF TickStep /\ q.branch = "SCATTER"
                 THEN /\ q.scatterPos = VAdd(p.scatterPos, p.velocity)
                      /\ IF VLengthSq(q.scatterPos) > SCATTER_RADIUS * SCATTER_RADIUS
                         THEN q.velocity = VNegate(p.velocity)
                         ELSE q.velocity = p.velocity
                 ELSE q.scatterPos = p.scatterPos /\ q.velocity = p.velocity
              /\ VLengthSq(q.velocity) = VLengthSq(p.velocity)
              /\ \E v \in CreationVelocities(i) :
                    q.velocity = v \/ q.velocity = VNegate(v) ]_vars

\* A photo created on the scatter sphere moving outward has stepped
\* beyond the radius, stays beyond it, and moves inward now.
C13_Witness ==
    \E i \in 1..Len(particles) :
        /\ particles[i].type = "PHOTO"
        /\ particles[i].branch = "SCATTER"
        /\ particles[i].scatterPos = Vec(SCATTER_RADIUS + VelocityMagnitude, 0, 0)
        /\ particles[i].velocity = Vec(0 - VelocityMagnitude, 0, 0)

\* The rules of the classifier on a landmark set, distances in units of
\* 0.0001: thumb tip to index tip, and the tips to the wrist.
PinchRule(lm) == Hypot(lm[4], lm[8]) < 500
LShapeRule(lm) ==
    /\ Hypot(lm[8], lm[0]) > 3000
    /\ Hypot(lm[12], lm[0]) < 2500
    /\ Hypot(lm[16], lm[0]) < 2500
    /\ Hypot(lm[20], lm[0]) < 2500
    /\ Hypot(lm[4], lm[0]) > 2000
\* Four times the average of the four non-thumb tip-to-wrist distances.
TipDistSum(lm) ==
    Hypot(lm[8], lm[0]) + Hypot(lm[12], lm[0]) + Hypot(lm[16], lm[0]) + Hypot(lm[20], lm[0])
FistRule(lm) == TipDistSum(lm) < 4 * 2500
OpenRule(lm) == TipDistSum(lm) > 4 * 3500

\* C14 (precedence of the classifier): the label of a landmark set is that
\* of the first matching rule, pinch, then L-shape, then fist/open on the
\* average; a set matching pinch and L-shape is PINCH_ZOOM, one matching
\* L-shape and fist is L_SHAPE_PHOTO.
C14_Precedence ==
    [][ (FrameStep /\ HandDetected(StepResult)) =>
          LET lm == StepResult[1]
          IN  /\ PinchRule(lm) => gestureRef' = "PINCH_ZOOM"
              /\ (~PinchRule(lm) /\ LShapeRule(lm)) => gestureRef' = "L_SHAPE_PHOTO"
              /\ (~PinchRule(lm) /\ ~LShapeRule(lm)) =>
                    gestureRef' = (IF FistRule(lm) THEN "FIST"
                                   ELSE IF OpenRule(lm) THEN "OPEN_ROTATE"
                                   ELSE "NONE")
              /\ (PinchRule(lm) /\ LShapeRule(lm)) => gestureRef' = "PINCH_ZOOM"
              /\ (~PinchRule(lm) /\ LShapeRule(lm) /\ FistRule(lm)) =>
                    gestureRef' = "L_SHAPE_PHOTO" ]_vars

\* A landmark set matching both the pinch and the L-shape rule has been
\* classified PINCH_ZOOM.
C14_Witness ==
    /\ lastResult # << >>
    /\ HandDetected(lastResult[1])
    /\ PinchRule(lastResult[1][1])
    /\ LShapeRule(lastResult[1][1])
    /\ gestureRef = "PINCH_ZOOM"

\* C15 (fist/open dead zone): when neither pinch nor L-shape matches, the
\* label is FIST exactly when the average tip distance is below 0.25,
\* OPEN_ROTATE exactly when it is above 0.35, and NONE exactly when it lies
\* in [0.25, 0.35], both endpoints included; FIST and OPEN_ROTATE never
\* both apply.
C15_DeadZone ==
    [][ (/\ FrameStep /\ HandDetected(StepResult)
         /\ ~PinchRule(StepResult[1]) /\ ~LShapeRule(StepResult[1])) =>
          LET sum == TipDistSum(StepResult[1])
          IN  /\ gestureRef' = "FIST" <=> sum < 4 * 2500
              /\ gestureRef' = "OPEN_ROTATE" <=> sum > 4 * 3500
              /\ gestureRef' = "NONE" <=> (sum >= 4 * 2500 /\ sum <= 4 * 3500)
              /\ ~(FistRule(StepResult[1]) /\ OpenRule(StepResult[1])) ]_vars

\* A hand whose average tip distance is exactly 0.25 has been classified
\* NONE.
C15_Witness ==
    /\ lastResult # << >>
    /\ HandDetected(lastResult[1])
    /\ ~PinchRule(lastResult[1][1])
    /\ ~LShapeRule(lastResult[1][1])
    /\ TipDistSum(lastResult[1][1]) = 4 * 2500
    /\ gestureRef = "NONE"

\* C16 (failure of the vision setup): once setupVision has failed it stays
\* failed, no frame is processed, and mode, gesture, rotationSpeed,
\* debounceCount and countdown never change; animate stays enabled (up to
\* the model's bound on ticks) and a tick after the failure is a whole
\* animation step.
C16_FailureIsStatic ==
    /\ []((setupPc = "failed" /\ ticks < MaxTicks) => ENABLED Animate)
    /\ [][ setupPc = "failed" =>
             /\ setupPc' = "failed"
             /\ ~FrameStep
             /\ UNCHANGED << modeRef, gestureRef, rotationSpeedRef,
                             photoModeDebounceRef, countdown, isCountingDownRef,
                             timers >>
             /\ TickStep =>
                   /\ rotationOffsetRef' = rotationOffsetRef + rotationSpeedRef
                   /\ particles' = AnimateParticles(particles, modeRef, gestureRef,
                                                    rotationOffsetRef') ]_vars

\* Setup has failed and animate has run as often as the model lets it.
C16_Witness ==
    /\ setupPc = "failed"
    /\ loadingText = "MOUSE ONLY"
    /\ ticks = MaxTicks
    /\ rotationOffsetRef = MaxTicks * DefaultSpeed

\* C17 (ordering between the two loops): a frame's gesture, mode and
\* rotationSpeed are written in one step, so in every state, hence at every
\* animation tick, gesture FIST comes with mode TREE and rotationSpeed
\* 0.005, gesture PINCH_ZOOM with mode SCATTER and rotationSpeed 0.002, and
\* gesture OPEN_ROTATE with mode SCATTER.
C17_FrameWritesTogether ==
    /\ gestureRef = "FIST" => (modeRef = "TREE" /\ rotationSpeedRef = DefaultSpeed)
    /\ gestureRef = "PINCH_ZOOM" => (modeRef = "SCATTER" /\ rotationSpeedRef = PinchSpeed)
    /\ gestureRef = "OPEN_ROTATE" => modeRef = "SCATTER"

\* A tick has run after a PINCH_ZOOM frame and has turned the assembly by
\* that frame's speed.
C17_Witness ==
    /\ gestureRef = "PINCH_ZOOM"
    /\ modeRef = "SCATTER"
    /\ rotationSpeedRef = PinchSpeed
    /\ ticks = MaxTicks
    /\ rotationOffsetRef = DefaultSpeed + PinchSpeed

\* C18 (target selection in one tick): for every particle exactly one case
\* applies.  Under PINCH_ZOOM the selected nearest photo moves toward the
\* fixed focus position; otherwise, in mode TREE without PINCH_ZOOM, the
\* particle moves toward its treePos; in every other case (mode SCATTER or
\* LOADING, or a particle not focused during a pinch) scatterPos is advanced
\* by velocity and the particle moves toward the advanced scatterPos.  Only
\* the third case changes scatterPos.
C18_TargetSelection ==
    [][ TickStep =>
          LET n == nearestPhoto(particles, gestureRef, rotationOffsetRef')
          IN  \A i \in 1..Len(particles) :
                LET p == particles[i]
                    q == particles'[i]
                    focus == gestureRef = "PINCH_ZOOM" /\ i = n
                    tree == ~focus /\ modeRef = "TREE" /\ gestureRef # "PINCH_ZOOM"
                IN  /\ focus =>
                          /\ q.branch = "FOCUS"
                          /\ q.position = VLerp(p.position, Vec(0, 500, 5500), LERP_SPEED)
                          /\ q.scatterPos = p.scatterPos
                    /\ tree =>
                          /\ q.branch = "TREE"
                          /\ q.position = VLerp(p.position, p.treePos, LERP_SPEED)
                          /\ q.scatterPos = p.scatterPos
                    /\ (~focus /\ ~tree) =>
                          /\ q.branch = "SCATTER"
                          /\ q.scatterPos = VAdd(p.scatterPos, p.velocity)
                          /\ q.position = VLerp(p.position, q.scatterPos, LERP_SPEED) ]_vars

\* A pinch tick has moved the first photo from the assembly's origin toward
\* the focus position while the second photo and the first startup particle
\* took the scatter case.
C18_Witness ==
    /\ gestureRef = "PINCH_ZOOM"
    /\ Len(particles) = NumInitial + 2
    /\ particles[NumInitial + 1].branch = "FOCUS"
    /\ particles[NumInitial + 1].position = VLerp(Vec(0, 0, 0), Vec(0, 500, 5500), LERP_SPEED)
    /\ particles[NumInitial + 2].branch = "SCATTER"
    /\ particles[1].branch = "SCATTER"

\* C19 (pinch focus is fixed in front of the camera): in every tick that
\* focuses a photo, the world-space point the photo is pulled to, the
\* tick's target seen through the assembly's accumulated yaw, is the point
\* (0, 5, 55) in front of the camera, whatever the yaw.
C19_FocusFixedInWorld ==
    [][ (TickStep /\ Focused # {}) =>
            WorldPos(FocusPos, rotationOffsetRef') = Vec(0, 500, 5500) ]_vars

\* C20 (frame gating): a frame is processed only for a ready video and a
\* timestamp later than the last processed one, so each timestamp is
\* processed at most once; whatever the state machine writes (gesture, mode,
\* rotationSpeed, an increment of debounceCount, the start of a countdown,
\* the debug text) changes only in a step that processes a new timestamp, so
\* an iteration on a stale frame or on a video that is not ready changes
\* nothing.
C20_FrameGating ==
    [][ /\ FrameStep =>
              /\ lastVideoTime' = currentTime
              /\ lastVideoTime < currentTime
              /\ videoReady'
        /\ (\/ gestureRef' # gestureRef
            \/ rotationSpeedRef' # rotationSpeedRef
            \/ modeRef' # modeRef
            \/ debugInfo' # debugInfo
            \/ photoModeDebounceRef' > photoModeDebounceRef
            \/ CountdownStarts
            \/ lastResult' # lastResult
            \/ consecL' # consecL) => FrameStep ]_vars

\* An L-shape frame has been counted once and the video shows no newer
\* frame: the loop iterates on the stale frame.
C20_Witness ==
    /\ setupPc = "running"
    /\ lastVideoTime = currentTime
    /\ lastVideoTime > 0
    /\ gestureRef = "L_SHAPE_PHOTO"
    /\ photoModeDebounceRef = 1
    /\ ~isCountingDownRef

\* C21 (rotationOffset is a pure accumulator): every animation tick sets
\* rotationOffset, which is the assembly's yaw, to its previous value plus
\* the current rotationSpeed; no other step (a processed frame, a timer
\* firing, a capture, a setup step) changes it.
C21_PureAccumulator ==
    [][ /\ TickStep => rotationOffsetRef' = rotationOffsetRef + rotationSpeedRef
        /\ ~TickStep => rotationOffsetRef' = rotationOffsetRef ]_vars

\* A tick has added the speed 0.01 of an open hand at the right edge to the
\* yaw 0.005 of the startup tick.
C21_Witness ==
    /\ ticks = 2
    /\ rotationSpeedRef = 100
    /\ rotationOffsetRef = DefaultSpeed + 100

\* C22 as stated (rotationOffset advances monotonically): no step decreases
\* rotationOffset.
C22_NeverDecreases ==
    [][ rotationOffsetRef' >= rotationOffsetRef ]_vars

\* C22 amended: rotationOffset does not decrease in a tick whose
\* rotationSpeed is zero or positive; it decreases exactly in the ticks whose
\* rotationSpeed is negative, a speed in [-0.01, 0) that only an OPEN_ROTATE
\* frame with the palm left of the centre writes (a dead-zone NONE frame
\* after it keeps it); it is never reset.
C22_MonotoneWhileNonNegative ==
    [][ /\ (TickStep /\ rotationSpeedRef >= 0) => rotationOffsetRef' >= rotationOffsetRef
        /\ rotationOffsetRef' < rotationOffsetRef <=> (TickStep /\ rotationSpeedRef < 0)
        /\ rotationSpeedRef' < 0 =>
              /\ rotationSpeedRef' >= 0 - 100
              /\ gestureRef' \in {"OPEN_ROTATE", "NONE"}
              /\ (gestureRef' = "OPEN_ROTATE" =>
                      (PalmX(lastResult'[1]) < 50
                       /\ rotationSpeedRef' = (PalmX(lastResult'[1]) - 50) * 2)) ]_vars

\* A tick under an open hand at the left edge has turned the assembly back
\* from yaw 0.005 to -0.005.
C22_Witness ==
    /\ ticks = 2
    /\ gestureRef = "OPEN_ROTATE"
    /\ rotationSpeedRef = 0 - 100
    /\ rotationOffsetRef = DefaultSpeed - 100

\* C23 (LOADING is a startup-only phase): mode is LOADING exactly until
\* visionLoop runs; it leaves LOADING only in the step in which setup
\* succeeds, which writes TREE and then processes the first frame; every
\* frame is processed with an entry mode other than LOADING; once mode is
\* TREE or SCATTER it stays TREE or SCATTER.
C23_LoadingStartupOnly ==
    /\ [](modeRef = "LOADING" <=> setupPc # "running")
    /\ [][ /\ (modeRef = "LOADING" /\ modeRef' # "LOADING") =>
                 /\ setupPc = "loadeddata"
                 /\ setupPc' = "running"
                 /\ modeRef' = FrameMode("TREE", StepResult)
           /\ FrameStep => (setupPc' = "running" /\ FrameEntryMode \in {"TREE", "SCATTER"})
           /\ modeRef # "LOADING" => modeRef' \in {"TREE", "SCATTER"} ]_vars

\* The state machine has moved the mode to SCATTER and a later frame
\* without a hand has left it there.
C23_Witness ==
    /\ setupPc = "running"
    /\ modeRef = "SCATTER"
    /\ lastResult = << NoHand >>
    /\ lastVideoTime > 0

\* This step is a firing of the countdown timer's callback.
TimerStep == timers' # timers /\ ~CountdownStarts

\* C24 (the published countdown): in every state countdown is inactive or
\* one of 3, 2, 1, and it is active exactly when isCountingDown is set; a
\* timer firing lowers an active countdown by exactly one, or clears it
\* when it shows 1; nothing else changes an active countdown; 0 and negative
\* numbers are never shown.
C24_CountdownValues ==
    /\ [](/\ countdown \in { << >>, << 3 >>, << 2 >>, << 1 >> }
          /\ countdown # << >> <=> isCountingDownRef)
    /\ [][ /\ TimerStep =>
                 /\ countdown # << >>
                 /\ IF countdown[1] > 1
                    THEN countdown' = << countdown[1] - 1 >>
                    ELSE countdown' = << >>
           /\ (countdown # << >> /\ countdown' # countdown) => TimerStep
           /\ (countdown = << >> /\ countdown' # << >>) =>
                 (CountdownStarts /\ countdown' = << 3 >>) ]_vars

\* The countdown shows 1 after two timer firings.
C24_Witness ==
    /\ countdown = << 1 >>
    /\ isCountingDownRef
    /\ shown = << 3, 2, 1 >>
    /\ timers = << 1 >>

\* C25 (frame conditions of the animation step): no tick changes a
\* particle's treePos or type; a tick that handles a particle through the
\* TREE branch or as the pinch-focused particle leaves its scatterPos and
\* velocity as they were, so scatterPos and velocity change only in a tick
\* that handles the particle through the scatter branch.
C25_TickFrame ==
    [][ TickStep =>
          /\ Len(particles') = Len(particles)
          /\ \A i \in 1..Len(particles) :
                LET p == particles[i]
                    q == particles'[i]
                IN  /\ q.treePos = p.treePos
                    /\ q.type = p.type
                    /\ q.branch \in {"TREE", "FOCUS"} =>
                          (q.scatterPos = p.scatterPos /\ q.velocity = p.velocity)
                    /\ (q.scatterPos # p.scatterPos \/ q.velocity # p.velocity) =>
                          q.branch = "SCATTER" ]_vars

\* Three ticks have run, the last one in mode TREE, and both photos are
\* still at the scatterPos they were created with.
C25_Witness ==
    /\ ticks = MaxGalleryTicks
    /\ modeRef = "TREE"
    /\ \A i \in 1..Len(particles) : particles[i].branch = "TREE"
    /\ \A i \in (NumInitial + 1)..Len(particles) :
          /\ particles[i].scatterPos \in PhotoScatterChoices
          /\ particles[i].position # Vec(0, 0, 0)

\* C26 (the photo sub-state is orthogonal to mode and rotation control): a
\* frame processed while counting down applies the mode and rotationSpeed of
\* its gesture (OPEN_ROTATE: SCATTER and (palmX - 0.5) * 0.02; PINCH_ZOOM:
\* SCATTER and 0.002; FIST: TREE and 0.005) and leaves the countdown and its
\* timer alone; a timer firing, the completing one with its capture
\* included, leaves mode, gesture, rotationSpeed and rotationOffset
\* unchanged.
C26_Orthogonal ==
    [][ /\ (FrameStep /\ isCountingDownRef /\ HandDetected(StepResult)) =>
              LET g == FrameGesture(StepResult)
              IN  /\ g = "OPEN_ROTATE" =>
                        /\ modeRef' = "SCATTER"
                        /\ rotationSpeedRef' = (PalmX(StepResult) - 50) * 2
                  /\ g = "PINCH_ZOOM" =>
                        (modeRef' = "SCATTER" /\ rotationSpeedRef' = PinchSpeed)
                  /\ g = "FIST" =>
                        (modeRef' = "TREE" /\ rotationSpeedRef' = DefaultSpeed)
                  /\ UNCHANGED << countdown, timers, isCountingDownRef >>
        /\ TimerStep =>
              UNCHANGED << modeRef, gestureRef, rotationSpeedRef, rotationOffsetRef >> ]_vars

\* A FIST frame has been processed after the countdown started, and the
\* countdown has come down to 1.
C26_Witness ==
    /\ isCountingDownRef
    /\ shown = << 3, 2, 1 >>
    /\ gestureRef = "FIST"
    /\ modeRef = "TREE"
    /\ rotationSpeedRef = DefaultSpeed
    /\ lastVideoTime > DebounceThreshold

\* Whether a scatterPos lies within the scatter radius, and within the
\* radius plus one velocity step.
WithinRadius(sp) == VLengthSq(sp) <= SCATTER_RADIUS * SCATTER_RADIUS
WithinReach(sp) ==
    VLengthSq(sp) <= (SCATTER_RADIUS + VelocityMagnitude) * (SCATTER_RADIUS + VelocityMagnitude)

TickTarget(i) ==
    CASE particles'[i].branch = "FOCUS" -> Vec(0, 500, 5500)
      [] particles'[i].branch = "TREE" -> particles[i].treePos
      [] OTHER -> particles'[i].scatterPos

\* One coordinate's offsets to the target before and after a tick: the
\* offset keeps its sign and does not grow, it shrinks by 0.025 of itself
\* (to the model's resolution of 0.01, rounded toward the position), and it
\* is zero afterwards only if it was zero before.
SmoothStep(before, after) ==
    /\ before >= 0 => (0 <= after /\ after <= before)
    /\ before <= 0 => (before <= after /\ after <= 0)
    /\ 1000 * (before - after) - 25 * before > 0 - 1000
    /\ 1000 * (before - after) - 25 * before < 1000
    /\ after = 0 => before = 0

\* C28 (position smoothing): every tick moves every particle's position
\* toward its current target by the fraction 0.025 of the remaining offset,
\* coordinate by coordinate; the position never passes the target, its
\* distance to the target does not grow, and it is at the target after the
\* tick only if it was there before.
C28_Smoothing ==
    [][ TickStep =>
          \A i \in 1..Len(particles) : \A k \in 1..3 :
              SmoothStep(TickTarget(i)[k] - particles[i].position[k],
                         TickTarget(i)[k] - particles'[i].position[k]) ]_vars

\* A photo has taken two steps from the assembly's origin toward its
\* treePos and is not there.
C28_Witness ==
    LET p == particles[NumInitial + 1]
    IN  /\ Len(particles) > NumInitial
        /\ p.branch = "TREE"
        /\ p.position = VLerp(VLerp(Vec(0, 0, 0), p.treePos, LERP_SPEED),
                              p.treePos, LERP_SPEED)
        /\ p.position # p.treePos

-----------------------------------------------------------------------------
(* Teardown: the photo scenario, and the unmount of the component at any    *)
(* moment of it.                                                             *)

\* The mount effect's cleanup at unmount: the resize listener and the canvas
\* are removed, the renderer is disposed and the stream's tracks are stopped;
\* React clears videoRef.current. No requestAnimationFrame is cancelled and
\* no interval is cleared. The stopped stream may leave the element's
\* readyState as it is or bring it below 2.
Teardown ==
    /\ videoEl
    /\ videoEl' = FALSE
    /\ videoReady' \in {videoReady, FALSE}
    /\ UNCHANGED << setupPc, loadingText, interactionVars, rotationOffsetRef, flash,
                    flashTimeouts, lastVideoTime, currentTime, particles,
                    ticks, frameHist, photoHist >>

\* The stream delivers its first frame, its next frame, or a change of
\* readyState only while its tracks are not stopped.
MountedLoadedData == videoEl /\ ScenarioLoadedData
MountedVideoFrame == videoEl /\ VideoFrame
MountedVideoReadyState == videoEl /\ VideoReadyState

TeardownNext ==
    \/ SetupResolver
    \/ SetupLandmarker
    \/ SetupCamera
    \/ SetupFail
    \/ MountedLoadedData
    \/ ScenarioFrame
    \/ VisionLoopStale
    \/ ScenarioTimer
    \/ FlashOff
    \/ Animate
    \/ MountedVideoFrame
    \/ MountedVideoReadyState
    \/ Teardown

TeardownSpec == Init /\ [][TeardownNext]_vars

\* C29 (teardown stops the loops): once the teardown has run, no step - no
\* animation tick, vision-loop iteration or countdown timer firing - changes
\* the interaction state or the particle registry.
C29_TeardownStopsLoops ==
    [][ ~videoEl => UNCHANGED << interactionVars, particles >> ]_vars

=============================================================================
